---------------------------- MODULE Spec2Model ----------------------------
(***************************************************************************)
(* HPOA Builder (blakebyer/hpoa_builder), src/src/app.py.                  *)
(*                                                                         *)
(* The Streamlit script is re-run from top to bottom on every user         *)
(* interaction.  Each session action below is one such run: it starts by   *)
(* rebinding the script global hpoa_df to the cached table                 *)
(* (app.py:186), runs the handler of the widget that triggered it and      *)
(* renders the editor of the right column.  What survives between runs is  *)
(* st.session_state, the widget state and the st.cache_resource cache.     *)
(*                                                                         *)
(* Four specifications share the variables:                                *)
(*   Spec         the annotation session (chat, select, edit, approve);    *)
(*   SpecFlatten  annotations_to_df applied to a raw agent result;         *)
(*   SpecTree     build_tree run as a stack machine over an edge list,     *)
(*                and the search of the ontology browser over its tree;    *)
(*   SpecLoad     load_minimal_ontology applied to a document.             *)
(***************************************************************************)
EXTENDS Naturals, Sequences, FiniteSets, TLC

VARIABLES
    cached_df,          \* the table load_hpoa_df() returns (st.cache_resource)
    hpoa_df,            \* the script global hpoa_df of the current / latest run
    chat_messages,      \* st.session_state.chat_messages
    last_agent_result,  \* st.session_state.last_agent_result, or Unset
    picked,             \* the multiselect "Select diseases to edit:"
    agent_df,           \* agent_df of the latest run
    editor,             \* which st.data_editor the latest run rendered
    edited,             \* what that data_editor returned (user edits applied)
    edited_copy,        \* st.session_state.edited_copy, or Unset
    pc,                 \* position of the running script
    idx,                \* position of the Approve loop in edited.iterrows()
    run_error,          \* the exception that ended the latest run, or "none"
    call_error,         \* what call_agent_with_retry raised in the latest run, or "none"
    edge_list,          \* the (child, parent) list handed to create_graph
    stack,              \* the call stack of build_tree
    tree,               \* the value build_tree returned, or NoTree
    tree_error,         \* the exception build_tree ended with, or "none"
    doc,                \* the document json.load returned in load_minimal_ontology
    prefix,             \* the argument prefix of load_minimal_ontology
    curie_to_term,      \* the lookup extract_terms_ontology returned
    terms,              \* the terms extract_terms_ontology returned
    load_pc,            \* position of load_minimal_ontology
    load_error,         \* the exception load_minimal_ontology ended with, or "none"
    q,                  \* the search text of the ontology browser, lowered
    filtered            \* the items handed to sac.tree

session_vars == <<cached_df, hpoa_df, chat_messages, last_agent_result, picked,
                  agent_df, editor, edited, edited_copy, pc, idx, run_error, call_error,
                  call_error>>
load_vars == <<doc, prefix, curie_to_term, terms, load_pc, load_error>>
search_vars == <<q, filtered>>
tree_vars == <<edge_list, stack, tree, tree_error,
               doc, prefix, curie_to_term, terms, load_pc, load_error, q, filtered>>
vars == <<cached_df, hpoa_df, chat_messages, last_agent_result, picked,
          agent_df, editor, edited, edited_copy, pc, idx, run_error, call_error,
          edge_list, stack, tree, tree_error,
          doc, prefix, curie_to_term, terms, load_pc, load_error, q, filtered>>

---------------------------------------------------------------------------
(* Bounds *)

MaxRows == 3        \* rows of the loaded annotation table
MaxChanges == 2     \* items of one agent reply
MaxRequests == 1    \* chat requests of one session
MaxItems == 2       \* items of a raw result handed to annotations_to_df
MaxEdges == 4       \* edges of the retained edge list
RecursionLimit == 6 \* frames the interpreter allows before RecursionError

---------------------------------------------------------------------------
(* Data: dictionaries, rows and frames *)

\* the value of a session_state key that was never assigned
Unset == [kind |-> "unset"]
\* a missing cell of a DataFrame (NaN / None)
NaN == "<NaN>"

KeyColumns == {"database_id", "hpo_id"}
TableColumns == {"database_id", "disease_name", "hpo_id", "evidence"}
Bookkeeping == {"status", "rationale"}

\* d[k] = v on a copy of the dict d
Put(d, k, v) == [x \in (DOMAIN d) \cup {k} |-> IF x = k THEN v ELSE d[x]]
\* d.get(k, default)
Get(d, k, default) == IF k \in DOMAIN d THEN d[k] ELSE default
\* d without the keys ks (Series.drop)
Drop(d, ks) == [x \in (DOMAIN d) \ ks |-> d[x]]

\* pd.DataFrame(rows): the columns are the union of the keys, a key a row
\* lacks is NaN in that row
FrameColumns(rows) == UNION {DOMAIN rows[i] : i \in 1..Len(rows)}
DataFrame(rows) ==
    [i \in 1..Len(rows) |->
        [c \in FrameColumns(rows) |-> IF c \in DOMAIN rows[i] THEN rows[i][c] ELSE NaN]]

\* elementwise ==  of a column cell and a scalar: a missing value equals nothing
CellEq(a, b) == a # NaN /\ b # NaN /\ a = b

---------------------------------------------------------------------------
(* annotations_to_df *)

\* A raw agent result is [kind, annotations]: kind says what result.output is
\* ("model": a pydantic model with model_dump, "dict": a dict, "other":
\* anything else, "no_output": the result has no attribute output).
annotations_of(result) ==
    IF result.kind \in {"model", "dict"} THEN result.annotations ELSE <<>>

\* mutant: a wrapped row keeps the status and the rationale it carries itself
flatten_item_keeps_own(item) ==
    IF "annotation" \in DOMAIN item
    THEN LET row0 == Put(item["annotation"], "status",
                         Get(item["annotation"], "status", "removed"))
         IN  Put(row0, "rationale", Get(row0, "rationale", ""))
    ELSE LET row1 == Put(item, "status", Get(item, "status", "added"))
         IN  Put(row1, "rationale", Get(row1, "rationale", ""))

\* the body of the loop over annotations: one flattened dict per item
flatten_item(item) ==
    IF "annotation" \in DOMAIN item
    THEN Put(Put(item["annotation"], "status", "removed"),
             "rationale", Get(item, "rationale", ""))
    ELSE LET row1 == Put(item, "status", Get(item, "status", "added"))
         IN  Put(row1, "rationale", Get(row1, "rationale", ""))

flatten_rows(annotations) ==
    [i \in 1..Len(annotations) |-> flatten_item(annotations[i])]

annotations_to_df(result) ==
    IF result.kind = "no_output"
    THEN <<>>
    ELSE DataFrame(flatten_rows(annotations_of(result)))

---------------------------------------------------------------------------
(* The annotation table and the inputs of a session *)

DatabaseIds == {"D1", "D2"}
HpoIds == {"P1", "P2"}
Evidences == {"IEA", "PCS"}
DiseaseNames == {"A", "B"}

DiseaseNameOf(d) == IF d = "D1" THEN "A" ELSE "B"

TableRows ==
    {r \in [database_id : DatabaseIds, disease_name : DiseaseNames,
            hpo_id : HpoIds, evidence : Evidences] :
        /\ r.disease_name = DiseaseNameOf(r.database_id)
        /\ r.database_id = "D1" => r.hpo_id = "P1"
        /\ r.database_id = "D2" => (r.hpo_id = "P2" /\ r.evidence = "IEA")}

SeqsUpTo(S, n) == UNION {[1..k -> S] : k \in 0..n}

\* read_csv with dtype=str, keep_default_na=False: every cell is a string
Tables == SeqsUpTo(TableRows, MaxRows)

\* the row payloads an agent proposes: full rows, and rows lacking a key field
FullPayloads ==
    {r \in [database_id : {"D1"}, disease_name : {"A"},
            hpo_id : HpoIds, evidence : {"IEA"}] : TRUE}
NoHpoId == [database_id |-> "D1", disease_name |-> "A", evidence |-> "IEA"]
NoDatabaseId == [hpo_id |-> "P1", disease_name |-> "A", evidence |-> "IEA"]
KeylessPayloads == {NoHpoId, NoDatabaseId}
Payloads == FullPayloads \cup KeylessPayloads

WithOptional(d, k, values) == {d} \cup {Put(d, k, v) : v \in values}

\* the two shapes of an item: a bare row, and a wrapper around an annotation
BareItems(payloads, statuses, rationales) ==
    UNION {UNION {WithOptional(d, "rationale", rationales) :
                    d \in WithOptional(p, "status", statuses)} : p \in payloads}
WrapperItems(payloads, rationales) ==
    UNION {WithOptional([annotation |-> p], "rationale", rationales) : p \in payloads}

\* the replies of the suggester in a session
SessionItems ==
    BareItems(FullPayloads \cup {NoHpoId}, {}, {})
        \cup BareItems({p \in FullPayloads : p.hpo_id = "P1"}, {"changed"}, {})
        \cup {Put(w, "rationale", "why") : w \in WrapperItems(FullPayloads, {})}
SessionResults ==
    {[kind |-> "dict", annotations |-> a] : a \in SeqsUpTo(SessionItems, MaxChanges)}
        \cup {[kind |-> "other", annotations |-> <<>>]}

\* the raw results annotations_to_df is applied to in SpecFlatten
FlattenItems ==
    BareItems(Payloads, {"added", "changed", "removed"}, {"why"})
        \cup WrapperItems(Payloads \cup {Put(p, "status", "added") : p \in FullPayloads}, {"why"})
FlattenResults ==
    {[kind |-> k, annotations |-> a] :
        k \in {"model", "dict"}, a \in SeqsUpTo(FlattenItems, MaxItems)}
        \cup {[kind |-> k, annotations |-> <<>>] : k \in {"other", "no_output"}}

ErrorTexts == {"timeout"}

---------------------------------------------------------------------------
(* The right column: select, the editors, Approve Edits *)

\* hpoa_df[hpoa_df["disease_name"].isin(picked)].copy().reset_index(drop=True)
copy_df(df, names) == SelectSeq(df, LAMBDA r : r.disease_name \in names)

\* sorted(hpoa_df["disease_name"].dropna().unique()): the options of the multiselect
opts(df) == {df[i].disease_name : i \in 1..Len(df)} \ {NaN}

\* agent_df as the run computes it from the session state
agent_df_of(result) == IF result = Unset THEN <<>> ELSE annotations_to_df(result)

\* What a run renders in the right column, given the multiselect and the
\* session state it runs with: the agent editor when picked and agent_df are
\* not empty, else the manual editor over copy_df, nothing when nothing is
\* picked.  A data_editor keeps the user's edits from run to run while it is
\* rendered over the same input frame, and starts from its input otherwise.
render(names, result) ==
    IF names = {}
    THEN [agent_df |-> <<>>, editor |-> "none", edited |-> <<>>]
    ELSE LET adf == agent_df_of(result)
             cdf == copy_df(cached_df, names)
         IN  IF adf # <<>>
             THEN [agent_df |-> adf, editor |-> "agent",
                   edited |-> IF editor = "agent" /\ agent_df = adf THEN edited ELSE adf]
             ELSE [agent_df |-> adf, editor |-> "manual",
                   edited |-> IF editor = "manual" /\ copy_df(cached_df, picked) = cdf
                              THEN edited ELSE cdf]

\* the row of a frame over the given columns, NaN where the row has no value
pad(row, cols) == [c \in cols |-> Get(row, c, NaN)]

\* mutant: the appended row replaces the rows that have its key
concat_row_replacing_key(df, row) ==
    LET cols == TableColumns \cup DOMAIN row
        kept == SelectSeq(df, LAMBDA r : ~(/\ CellEq(r["database_id"], Get(row, "database_id", NaN))
                                          /\ CellEq(r["hpo_id"], Get(row, "hpo_id", NaN))))
    IN  [i \in 1..(Len(kept) + 1) |->
            IF i <= Len(kept) THEN pad(kept[i], cols) ELSE pad(row, cols)]

\* pd.concat([df, row.to_frame().T], ignore_index=True)
concat_row(df, row) ==
    LET cols == TableColumns \cup DOMAIN row
    IN  [i \in 1..(Len(df) + 1) |-> IF i <= Len(df) THEN pad(df[i], cols) ELSE pad(row, cols)]

\* mutant: the mask compares database_id only
key_matches_database_only(r, row) == CellEq(r["database_id"], row["database_id"])

\* the boolean mask of the removed branch (app.py:260-263)
key_matches(r, row) ==
    CellEq(r["database_id"], row["database_id"]) /\ CellEq(r["hpo_id"], row["hpo_id"])

\* hpoa_df[~mask]
drop_matching(df, row) == SelectSeq(df, LAMBDA r : ~key_matches(r, row))

\* the fields appended by the other branch: row.drop(["status", "rationale"])
appended_fields(row) == Drop(row, Bookkeeping)

\* mutant: every change acts on the loaded table, not on the rows the
\* previous change left
apply_edit_to_loaded(df, row) ==
    IF row["status"] = "removed"
    THEN IF KeyColumns \subseteq DOMAIN row
         THEN [df |-> drop_matching(cached_df, row), error |-> "none"]
         ELSE [df |-> df, error |-> "KeyError"]
    ELSE [df |-> concat_row(cached_df, appended_fields(row)), error |-> "none"]

\* one iteration of the loop of Approve Edits over edited.iterrows():
\* the new hpoa_df and the exception it raises, if any
apply_edit(df, row) ==
    IF row["status"] = "removed"
    THEN IF KeyColumns \subseteq DOMAIN row
         THEN [df |-> drop_matching(df, row), error |-> "none"]
         ELSE [df |-> df, error |-> "KeyError"]
    ELSE [df |-> concat_row(df, appended_fields(row)), error |-> "none"]

---------------------------------------------------------------------------
(* The session: one action per script run *)

NoTree == [label |-> "<no tree>", value |-> "", children |-> <<>>]

\* a document that was not loaded
NoDoc == [kind |-> "none"]

LoadIdle ==
    /\ doc = NoDoc
    /\ prefix = ""
    /\ curie_to_term = <<>>
    /\ terms = <<>>
    /\ load_pc = "idle"
    /\ load_error = "none"

SearchIdle ==
    /\ q = ""
    /\ filtered = <<>>

TreeIdle ==
    /\ edge_list = <<>>
    /\ stack = <<>>
    /\ tree = NoTree
    /\ tree_error = "none"
    /\ LoadIdle
    /\ SearchIdle

SessionIdle ==
    /\ hpoa_df = cached_df
    /\ chat_messages = <<>>
    /\ last_agent_result = Unset
    /\ picked = {}
    /\ agent_df = <<>>
    /\ editor = "none"
    /\ edited = <<>>
    /\ edited_copy = Unset
    /\ pc = "idle"
    /\ idx = 0
    /\ run_error = "none"
    /\ call_error = "none"

\* the first run: load_hpoa_df() fills the cache, nothing is picked
Init ==
    /\ cached_df \in Tables
    /\ SessionIdle
    /\ TreeIdle

\* what every run does before and after its handler: hpoa_df = load_hpoa_df()
\* (app.py:186), then the right column (app.py:237-275)
Rerun(names, result) ==
    /\ pc = "idle"
    /\ hpoa_df' = cached_df
    /\ picked' = names
    /\ agent_df' = render(names, result).agent_df
    /\ editor' = render(names, result).editor
    /\ run_error' = "none"
    /\ idx' = 0
    /\ UNCHANGED <<cached_df, pc>>
    /\ UNCHANGED tree_vars

\* str(reply) of a reply that is an agent result
StrOfResult == "AgentRunResult"

\* mutant: the except branch replies without the error text
error_reply_without_text(e) == "Error"

\* reply = f"Error: {e}" (app.py:230)
error_reply(e) == "Error: " \o e

\* the chat input handler (app.py:218-232): the suggester returns a result ...
ChatReply(msg, result) ==
    /\ Len(chat_messages) < 2 * MaxRequests
    /\ Rerun(picked, result)
    /\ call_error' = "none"
    /\ last_agent_result' = result
    /\ chat_messages' = chat_messages \o <<<<"user", msg>>, <<"assistant", StrOfResult>>>>
    /\ edited' = render(picked, result).edited
    /\ UNCHANGED edited_copy

\* ... or raises: the except branch leaves last_agent_result as it was
ChatError(msg, e) ==
    /\ Len(chat_messages) < 2 * MaxRequests
    /\ Rerun(picked, last_agent_result)
    /\ call_error' = e
    /\ chat_messages' = chat_messages \o <<<<"user", msg>>, <<"assistant", error_reply(e)>>>>
    /\ edited' = render(picked, last_agent_result).edited
    /\ UNCHANGED <<last_agent_result, edited_copy>>

\* the multiselect changes (app.py:239-243)
Select(names) ==
    /\ names # picked
    /\ Rerun(names, last_agent_result)
    /\ edited' = render(names, last_agent_result).edited
    /\ call_error' = "none"
    /\ UNCHANGED <<chat_messages, last_agent_result, edited_copy>>

\* the user edits the status cell of a row of the agent editor (app.py:252)
EditAgentStatus(i, s) ==
    /\ editor = "agent"
    /\ edited[i]["status"] # s
    /\ Rerun(picked, last_agent_result)
    /\ edited' = [edited EXCEPT ![i]["status"] = s]
    /\ call_error' = "none"
    /\ UNCHANGED <<chat_messages, last_agent_result, edited_copy>>

\* the user edits the hpo_id cell of a row of the manual editor (app.py:272)
EditManualCell(i, v) ==
    /\ editor = "manual"
    /\ edited[i]["hpo_id"] # v
    /\ Rerun(picked, last_agent_result)
    /\ edited' = [edited EXCEPT ![i]["hpo_id"] = v]
    /\ call_error' = "none"
    /\ UNCHANGED <<chat_messages, last_agent_result, edited_copy>>

\* Approve Edits of the manual branch (app.py:273-275)
ApproveManual ==
    /\ editor = "manual"
    /\ Rerun(picked, last_agent_result)
    /\ edited_copy' = [kind |-> "frame", rows |-> edited]
    /\ call_error' = "none"
    /\ UNCHANGED <<chat_messages, last_agent_result, edited>>

\* Approve Edits of the agent branch (app.py:256): the run reaches the loop
ApproveClick ==
    /\ pc = "idle"
    /\ editor = "agent"
    /\ hpoa_df' = cached_df
    /\ pc' = "applying"
    /\ idx' = 1
    /\ run_error' = "none"
    /\ call_error' = "none"
    /\ UNCHANGED <<cached_df, chat_messages, last_agent_result, picked, agent_df,
                   editor, edited, edited_copy>>
    /\ UNCHANGED tree_vars

\* one iteration of the loop (app.py:257-269); an exception ends the run
ApplyEdit ==
    /\ pc = "applying"
    /\ idx <= Len(edited)
    /\ hpoa_df' = apply_edit(hpoa_df, edited[idx]).df
    /\ run_error' = apply_edit(hpoa_df, edited[idx]).error
    /\ IF apply_edit(hpoa_df, edited[idx]).error = "none"
       THEN idx' = idx + 1 /\ pc' = "applying"
       ELSE idx' = 0 /\ pc' = "idle"
    /\ UNCHANGED <<cached_df, chat_messages, last_agent_result, picked, agent_df,
                   editor, edited, edited_copy, call_error>>
    /\ UNCHANGED tree_vars

\* the loop is over: st.success (app.py:270) and the run ends
ApproveDone ==
    /\ pc = "applying"
    /\ idx > Len(edited)
    /\ pc' = "idle"
    /\ idx' = 0
    /\ UNCHANGED <<cached_df, hpoa_df, chat_messages, last_agent_result, picked,
                   agent_df, editor, edited, edited_copy, run_error, call_error>>
    /\ UNCHANGED tree_vars

UserMessages == {"q"}
StatusValues == {"removed"}
\* the rows of the manual editor the user edits
ManualEditRows == {1}

Next ==
    \/ \E msg \in UserMessages, result \in SessionResults : ChatReply(msg, result)
    \/ \E msg \in UserMessages, e \in ErrorTexts : ChatError(msg, e)
    \/ \E names \in SUBSET opts(cached_df) : Select(names)
    \/ \E i \in 1..Len(edited), s \in StatusValues : EditAgentStatus(i, s)
    \/ \E i \in ManualEditRows \cap (1..Len(edited)), v \in HpoIds : EditManualCell(i, v)
    \/ ApproveManual
    \/ ApproveClick
    \/ ApplyEdit
    \/ ApproveDone

Spec == Init /\ [][Next]_vars

---------------------------------------------------------------------------
(* annotations_to_df on its own: a raw result is flattened once *)

InitFlatten ==
    /\ cached_df = <<>>
    /\ hpoa_df = <<>>
    /\ chat_messages = <<>>
    /\ last_agent_result \in FlattenResults
    /\ picked = {}
    /\ agent_df = <<>>
    /\ editor = "none"
    /\ edited = <<>>
    /\ edited_copy = Unset
    /\ pc = "idle"
    /\ idx = 0
    /\ run_error = "none"
    /\ call_error = "none"
    /\ TreeIdle

\* agent_df = annotations_to_df(st.session_state.last_agent_result) (app.py:246)
Flatten ==
    /\ pc = "idle"
    /\ agent_df' = annotations_to_df(last_agent_result)
    /\ pc' = "flattened"
    /\ UNCHANGED <<cached_df, hpoa_df, chat_messages, last_agent_result, picked,
                   editor, edited, edited_copy, idx, run_error, call_error>>
    /\ UNCHANGED tree_vars

NextFlatten == Flatten

SpecFlatten == InitFlatten /\ [][NextFlatten]_vars

---------------------------------------------------------------------------
(* build_tree over the retained edge list *)

Terms == {"HP:0000", "HP:0001", "HP:0002", "HP:0003"}
Root == "HP:0000"

\* term.name
term_name(t) ==
    CASE t = "HP:0000" -> "All"
      [] t = "HP:0001" -> "Abnormality/a"
      [] t = "HP:0002" -> "b"
      [] OTHER -> "c"

\* the retained edge lists: (child, parent) pairs in document order, a pair
\* may occur more than once; the root is nobody's child
Edges == {e \in Terms \X Terms : e[1] # Root}
EdgeLists == SeqsUpTo(Edges, MaxEdges)

\* ontology.graph.get_children(term): the graph is built from edge_list
\* (app.py:85) and lists one child per edge into the term
children_of(t) ==
    LET into == SelectSeq(edge_list, LAMBDA e : e[2] = t)
    IN  [i \in 1..Len(into) |-> into[i][1]]

\* current_path (app.py:92)
current_path(path, t) ==
    IF path # "" THEN path \o "/" \o term_name(t) \o t ELSE term_name(t) \o t

\* the label of a node (app.py:102)
label_of(t) == t \o " (" \o term_name(t) \o ")"

\* the frame of a call build_tree(ontology, t, path): the children still to
\* visit and children_nodes so far
frame(t, path) ==
    [term |-> t, current_path |-> current_path(path, t),
     todo |-> children_of(t), children_nodes |-> <<>>]

\* the dict a call returns (app.py:101-105)
node_of(f) ==
    [label |-> label_of(f.term), value |-> f.current_path, children |-> f.children_nodes]

InitTree ==
    /\ cached_df = <<>>
    /\ SessionIdle
    /\ edge_list \in EdgeLists
    /\ stack = <<>>
    /\ tree = NoTree
    /\ tree_error = "none"
    /\ LoadIdle
    /\ SearchIdle

\* HPO_TREE = [build_tree(hpo)] (app.py:160): the outermost call
BuildStart ==
    /\ stack = <<>>
    /\ tree = NoTree
    /\ tree_error = "none"
    /\ stack' = <<frame(Root, "")>>
    /\ UNCHANGED <<edge_list, tree, tree_error>>
    /\ UNCHANGED <<load_vars, search_vars>>
    /\ UNCHANGED session_vars

\* the loop calls build_tree for the next child (app.py:96-97); past the
\* interpreter's limit the call raises RecursionError, which nothing catches
Descend ==
    /\ stack # <<>>
    /\ stack[Len(stack)].todo # <<>>
    /\ IF Len(stack) >= RecursionLimit
       THEN /\ tree_error' = "RecursionError"
            /\ stack' = <<>>
       ELSE /\ stack' = Append(
                    [stack EXCEPT ![Len(stack)].todo = Tail(@)],
                    frame(Head(stack[Len(stack)].todo), stack[Len(stack)].current_path))
            /\ UNCHANGED tree_error
    /\ UNCHANGED <<edge_list, tree>>
    /\ UNCHANGED <<load_vars, search_vars>>
    /\ UNCHANGED session_vars

\* the loop is over: the call returns its node, which the caller appends to
\* children_nodes (app.py:98-105)
Return ==
    /\ stack # <<>>
    /\ stack[Len(stack)].todo = <<>>
    /\ IF Len(stack) = 1
       THEN /\ tree' = node_of(stack[1])
            /\ stack' = <<>>
       ELSE /\ stack' = [SubSeq(stack, 1, Len(stack) - 1)
                            EXCEPT ![Len(stack) - 1].children_nodes =
                                        Append(@, node_of(stack[Len(stack)]))]
            /\ UNCHANGED tree
    /\ UNCHANGED <<edge_list, tree_error>>
    /\ UNCHANGED <<load_vars, search_vars>>
    /\ UNCHANGED session_vars

\* the texts typed into "Search phenotypic abnormality:"
SearchTexts == {"", "Abnormality", "c", "zzz"}

\* str.lower() of a search text
lower(text) == IF text = "Abnormality" THEN "abnormality" ELSE text

\* filtered = [HPO_TREE[0]] if not q else [] (app.py:201-202)
filtered_of(query) == IF query = "" THEN <<tree>> ELSE <<>>

\* the ontology browser is rendered with a search text (app.py:200-203)
Search(text) ==
    /\ stack = <<>>
    /\ tree # NoTree
    /\ q' = lower(text)
    /\ filtered' = filtered_of(lower(text))
    /\ UNCHANGED <<edge_list, stack, tree, tree_error>>
    /\ UNCHANGED load_vars
    /\ UNCHANGED session_vars

NextTree ==
    \/ BuildStart
    \/ Descend
    \/ Return
    \/ \E text \in SearchTexts : Search(text)

SpecTree == InitTree /\ [][NextTree]_vars

---------------------------------------------------------------------------
(* load_minimal_ontology over an obographs document *)

MaxNodes == 4       \* nodes of the graph of a document
MaxDocEdges == 2    \* edges of the graph of a document

\* A URI is [ns, local]: the text before the local name, and the local name
\* as the sequence of its parts between underscores.
OboNs == "http://purl.obolibrary.org/obo/"
OtherNs == "http://example.org/"
Purl(pfx, id) == [ns |-> OboNs, local |-> <<pfx, id>>]

\* PURL_PATTERN.match(purl) and group("curie") (app.py:28-34): the curie is
\* the local name, split at its underscore; <<>> stands for None
extract_curie_from_purl(purl) ==
    IF purl.ns = OboNs /\ Len(purl.local) = 2 THEN purl.local ELSE <<>>

\* TermId.from_curie(curie): prefix, id and the value prefix:id
from_curie(curie) ==
    [prefix |-> curie[1], id |-> curie[2], value |-> curie[1] \o ":" \o curie[2]]

\* create_node(data): a Node, or None for data that has no id or no type
HasNode(data) == {"id", "type"} \subseteq DOMAIN data

\* MinimalTermFactory.create_term(term_id, node): a term, or None for a node
\* without meta
HasTerm(data) == "meta" \in DOMAIN data
create_term(term_id, data) == [identifier |-> term_id.value, name |-> data.lbl]

\* mutant: the prefix of the identifier is not tested
is_candidate_any_prefix(data, prefixes_of_interest) ==
    /\ HasNode(data)
    /\ data.type = "CLASS"
    /\ extract_curie_from_purl(data.id) # <<>>

\* the node passes the three continue tests of the loop (app.py:43-50)
is_candidate(data, prefixes_of_interest) ==
    /\ HasNode(data)
    /\ data.type = "CLASS"
    /\ extract_curie_from_purl(data.id) # <<>>
    /\ from_curie(extract_curie_from_purl(data.id)).prefix \in prefixes_of_interest

\* extract_terms_ontology (app.py:36-56): the lookup and the terms, folded
\* over the nodes in order
RECURSIVE extract_terms_from(_, _, _)
extract_terms_from(nodes, prefixes_of_interest, acc) ==
    IF nodes = <<>> THEN acc
    ELSE LET data == Head(nodes)
             curie == extract_curie_from_purl(data.id)
             term_id == from_curie(curie)
         IN  IF ~is_candidate(data, prefixes_of_interest)
             THEN extract_terms_from(Tail(nodes), prefixes_of_interest, acc)
             ELSE extract_terms_from(Tail(nodes), prefixes_of_interest,
                    [curie_to_term |-> Put(acc.curie_to_term, curie, term_id.value),
                     terms |-> IF HasTerm(data)
                               THEN Append(acc.terms, create_term(term_id, data))
                               ELSE acc.terms])

extract_terms_ontology(nodes, prefixes_of_interest) ==
    extract_terms_from(nodes, prefixes_of_interest, [curie_to_term |-> <<>>, terms |-> <<>>])

\* the edge passes the continue tests of the loop (app.py:62-72)
edge_retained(data, curie_to_termid) ==
    /\ data.pred = "is_a"
    /\ extract_curie_from_purl(data.sub) # <<>>
    /\ extract_curie_from_purl(data.obj) # <<>>
    /\ extract_curie_from_purl(data.sub) \in DOMAIN curie_to_termid
    /\ extract_curie_from_purl(data.obj) \in DOMAIN curie_to_termid

\* create_edge_list (app.py:58-74)
create_edge_list(edges, curie_to_termid) ==
    LET kept == SelectSeq(edges, LAMBDA data : edge_retained(data, curie_to_termid))
    IN  [i \in 1..Len(kept) |->
            <<curie_to_termid[extract_curie_from_purl(kept[i].sub)],
              curie_to_termid[extract_curie_from_purl(kept[i].obj)]>>]

\* the nodes and the edges of the documents
NodePool ==
    { [id |-> Purl("HP", "0001"), type |-> "CLASS", lbl |-> "a", meta |-> "m"],
      [id |-> Purl("HP", "0002"), type |-> "CLASS", lbl |-> "b", meta |-> "m"],
      [id |-> Purl("HP", "0003"), type |-> "CLASS", lbl |-> "c"],
      [id |-> Purl("MONDO", "0001"), type |-> "CLASS", lbl |-> "d", meta |-> "m"],
      [id |-> Purl("HP", "0004"), type |-> "PROPERTY", lbl |-> "p", meta |-> "m"],
      [id |-> [ns |-> OtherNs, local |-> <<"HP", "0005">>], type |-> "CLASS",
       lbl |-> "x", meta |-> "m"],
      [lbl |-> "no id"] }
EdgePool ==
    { [sub |-> Purl("HP", "0001"), pred |-> "is_a", obj |-> Purl("HP", "0002")],
      [sub |-> Purl("HP", "0001"), pred |-> "is_a", obj |-> Purl("HP", "0003")],
      [sub |-> Purl("HP", "0001"), pred |-> "part_of", obj |-> Purl("HP", "0002")],
      [sub |-> Purl("HP", "0001"), pred |-> "is_a", obj |-> Purl("MONDO", "0001")],
      [sub |-> [ns |-> OtherNs, local |-> <<"HP", "0005">>], pred |-> "is_a",
       obj |-> Purl("HP", "0002")] }
Graphs ==
    {[nodes |-> n, edges |-> e] :
        n \in SeqsUpTo(NodePool, MaxNodes), e \in SeqsUpTo(EdgePool, MaxDocEdges)}
\* json.load(fh): a document with one graph, one with an empty graphs array,
\* one without graphs
Docs ==
    {[graphs |-> <<g>>] : g \in Graphs} \cup {[graphs |-> <<>>], [meta |-> "m"]}
Prefixes == {"HP", "MONDO"}

InitLoad ==
    /\ cached_df = <<>>
    /\ SessionIdle
    /\ edge_list = <<>>
    /\ stack = <<>>
    /\ tree = NoTree
    /\ tree_error = "none"
    /\ SearchIdle
    /\ doc \in Docs
    /\ prefix \in Prefixes
    /\ curie_to_term = <<>>
    /\ terms = <<>>
    /\ load_pc = "opened"
    /\ load_error = "none"

\* obograph = doc["graphs"][0] (app.py:80): KeyError without the key graphs,
\* IndexError on an empty array; nothing catches either
OpenGraph ==
    /\ load_pc = "opened"
    /\ IF "graphs" \notin DOMAIN doc
       THEN load_pc' = "failed" /\ load_error' = "KeyError"
       ELSE IF doc.graphs = <<>>
            THEN load_pc' = "failed" /\ load_error' = "IndexError"
            ELSE load_pc' = "graph" /\ load_error' = "none"
    /\ UNCHANGED <<doc, prefix, curie_to_term, terms>>
    /\ UNCHANGED <<edge_list, stack, tree, tree_error, q, filtered>>
    /\ UNCHANGED session_vars

\* id_to_term_id, terms = extract_terms_ontology(...) (app.py:81-83)
ExtractTerms ==
    /\ load_pc = "graph"
    /\ curie_to_term' = extract_terms_ontology(doc.graphs[1].nodes, {prefix}).curie_to_term
    /\ terms' = extract_terms_ontology(doc.graphs[1].nodes, {prefix}).terms
    /\ load_pc' = "terms"
    /\ UNCHANGED <<doc, prefix, load_error>>
    /\ UNCHANGED <<edge_list, stack, tree, tree_error, q, filtered>>
    /\ UNCHANGED session_vars

\* edges = create_edge_list(...), handed to create_graph and, with terms, to
\* create_minimal_ontology (app.py:84-86)
CreateEdgeList ==
    /\ load_pc = "terms"
    /\ edge_list' = create_edge_list(doc.graphs[1].edges, curie_to_term)
    /\ load_pc' = "done"
    /\ UNCHANGED <<doc, prefix, curie_to_term, terms, load_error>>
    /\ UNCHANGED <<stack, tree, tree_error, q, filtered>>
    /\ UNCHANGED session_vars

NextLoad ==
    \/ OpenGraph
    \/ ExtractTerms
    \/ CreateEdgeList

SpecLoad == InitLoad /\ [][NextLoad]_vars

---------------------------------------------------------------------------
(* Claims about the Approve loop (Spec) *)

\* a change carries its identity key: both key cells are there and not missing
HasKey(row) ==
    /\ KeyColumns \subseteq DOMAIN row
    /\ row["database_id"] # NaN
    /\ row["hpo_id"] # NaN

KeyOf(row) == <<row["database_id"], row["hpo_id"]>>

RECURSIVE RowsWithoutKey(_, _)
RowsWithoutKey(rows, k) ==
    IF rows = <<>> THEN <<>>
    ELSE IF KeyOf(Head(rows)) = k
         THEN RowsWithoutKey(Tail(rows), k)
         ELSE <<Head(rows)>> \o RowsWithoutKey(Tail(rows), k)

KeyCount(rows, k) == Cardinality({i \in 1..Len(rows) : KeyOf(rows[i]) = k})

\* the loop is about to handle edited[idx]
AtChange == pc = "applying" /\ idx <= Len(edited)

\* C1: a removed change with identity key k leaves exactly the current rows
\* whose key is not k, in their order; with no row of key k the rows are
\* unchanged; no error is raised.
C1_RemovedDeletesExactlyTheKey ==
    [][(AtChange /\ edited[idx]["status"] = "removed" /\ HasKey(edited[idx]))
        => /\ hpoa_df' = RowsWithoutKey(hpoa_df, KeyOf(edited[idx]))
           /\ (KeyCount(hpoa_df, KeyOf(edited[idx])) = 0 => hpoa_df' = hpoa_df)
           /\ run_error' = "none"
           /\ pc' = "applying"]_vars

\* a removed change has deleted two rows of its key and kept the third row
C1_Witness ==
    /\ pc = "applying"
    /\ idx = 2
    /\ edited[1]["status"] = "removed"
    /\ HasKey(edited[1])
    /\ Len(cached_df) = 3
    /\ KeyCount(cached_df, KeyOf(edited[1])) = 2
    /\ Len(hpoa_df) = 1
    /\ KeyOf(hpoa_df[1]) # KeyOf(edited[1])

\* the row a change appends: its fields without status and rationale
PayloadRow(row) == [c \in TableColumns |-> Get(row, c, NaN)]

\* the same added change with key k was handled twice, from a table in which
\* n rows have key k
TwiceAdded ==
    /\ pc = "applying"
    /\ idx = 3
    /\ edited[1] = edited[2]
    /\ edited[1]["status"] = "added"
    /\ HasKey(edited[1])

ApplyPolicies == {"default", "replace_by_key"}

AfterTwo == pc = "applying" /\ Len(edited) = 2 /\ idx = 3

IsRemoved(row) == row["status"] = "removed"

\* the rows the claim's apply leaves: the changes in input order, each on the
\* rows the previous one left
RECURSIVE AppliedInOrder(_, _)
AppliedInOrder(rows, changes) ==
    IF changes = <<>> THEN rows
    ELSE AppliedInOrder(
            IF IsRemoved(Head(changes))
            THEN RowsWithoutKey(rows, KeyOf(Head(changes)))
            ELSE Append(rows, PayloadRow(Head(changes))),
            Tail(changes))

\* C3: the changes are applied in input order, each on the rows the previous
\* one left: [removed k, added k] leaves exactly the added row of key k,
\* [added k, removed k] leaves no row of key k, and {(D1,P1)} with
\* [removed (D1,P1), added (D1,P2)] becomes {(D1,P2)}.
C3_AppliedInInputOrder ==
    /\ (pc = "applying" /\ \A j \in 1..(idx - 1) : HasKey(edited[j]))
        => hpoa_df = AppliedInOrder(cached_df, SubSeq(edited, 1, idx - 1))
    /\ (AfterTwo /\ HasKey(edited[1]) /\ KeyOf(edited[2]) = KeyOf(edited[1])
            /\ IsRemoved(edited[1]) /\ ~IsRemoved(edited[2]))
        => /\ KeyCount(hpoa_df, KeyOf(edited[1])) = 1
           /\ hpoa_df[Len(hpoa_df)] = PayloadRow(edited[2])
    /\ (AfterTwo /\ HasKey(edited[1]) /\ KeyOf(edited[2]) = KeyOf(edited[1])
            /\ ~IsRemoved(edited[1]) /\ IsRemoved(edited[2]))
        => KeyCount(hpoa_df, KeyOf(edited[1])) = 0
    /\ (AfterTwo /\ Len(cached_df) = 1 /\ KeyOf(cached_df[1]) = <<"D1", "P1">>
            /\ IsRemoved(edited[1]) /\ KeyOf(edited[1]) = <<"D1", "P1">>
            /\ ~IsRemoved(edited[2]) /\ KeyOf(edited[2]) = <<"D1", "P2">>)
        => (Len(hpoa_df) = 1 /\ KeyOf(hpoa_df[1]) = <<"D1", "P2">>)

\* [removed k, added k] was applied to a table that had a row of key k
C3_Witness ==
    /\ AfterTwo
    /\ HasKey(edited[1])
    /\ KeyOf(edited[2]) = KeyOf(edited[1])
    /\ IsRemoved(edited[1])
    /\ ~IsRemoved(edited[2])
    /\ KeyCount(cached_df, KeyOf(edited[1])) = 2
    /\ KeyCount(hpoa_df, KeyOf(edited[1])) = 1

\* C4: a change that lacks an identity key field is rejected on its own: it
\* neither removes nor adds a row, and the loop goes on to the next change.
C4_KeylessChangeRejected ==
    [][(AtChange /\ ~HasKey(edited[idx]))
        => /\ hpoa_df' = hpoa_df
           /\ run_error' = "none"
           /\ pc' = "applying"
           /\ idx' = idx + 1]_vars

---------------------------------------------------------------------------
(* Claims about the chat handler and the manual branch (Spec) *)

OutsidePicked(df, names) == SelectSeq(df, LAMBDA r : r.disease_name \notin names)

RowBag(rows) == [r \in {rows[i] : i \in 1..Len(rows)} |->
                    Cardinality({i \in 1..Len(rows) : rows[i] = r})]

\* C7: approving the manual editor replaces, in the current rows, the rows the
\* working copy came from by the edited rows; the other rows stay.
C7_ManualApproveReplacesSubset ==
    [][edited_copy' # edited_copy
        => RowBag(hpoa_df') = RowBag(OutsidePicked(cached_df, picked) \o edited)]_vars

---------------------------------------------------------------------------
(* Claims about annotations_to_df (SpecFlatten) *)

IsWrapper(item) == "annotation" \in DOMAIN item

\* the row an item stands for, and the status and rationale the claim gives it
RowOfItem(item) == IF IsWrapper(item) THEN item["annotation"] ELSE item
StatusOfItem(item) ==
    IF IsWrapper(item) THEN "removed"
    ELSE IF "status" \in DOMAIN item THEN item["status"] ELSE "added"
RationaleOfItem(item) == IF "rationale" \in DOMAIN item THEN item["rationale"] ELSE ""

\* record is the one row+status+rationale record of item
IsRecordOf(record, item) ==
    /\ Bookkeeping \subseteq DOMAIN record
    /\ record["status"] = StatusOfItem(item)
    /\ record["rationale"] = RationaleOfItem(item)
    /\ (DOMAIN RowOfItem(item)) \ Bookkeeping \subseteq DOMAIN record
    /\ \A c \in (DOMAIN record) \ Bookkeeping :
            record[c] = (IF c \in DOMAIN RowOfItem(item) THEN RowOfItem(item)[c] ELSE NaN)

\* C5: flattening gives one record per item, in input order: a wrapper gives
\* its embedded row with status removed and the wrapper's rationale, a bare
\* row gives itself with its own status or added; a missing rationale is "";
\* the items are left as they were.
C5_FlattenOneRecordPerItem ==
    [][(pc = "idle" /\ pc' = "flattened")
        => /\ last_agent_result' = last_agent_result
           /\ Len(agent_df') = Len(last_agent_result.annotations)
           /\ \A i \in 1..Len(agent_df') :
                IsRecordOf(agent_df'[i], last_agent_result.annotations[i])]_vars

\* a wrapper without rationale around a row that carries a status, then a bare
\* row without status, rationale and hpo_id, were flattened
C5_Witness ==
    /\ pc = "flattened"
    /\ Len(last_agent_result.annotations) = 2
    /\ Len(agent_df) = 2
    /\ IsWrapper(last_agent_result.annotations[1])
    /\ "rationale" \notin DOMAIN last_agent_result.annotations[1]
    /\ "status" \in DOMAIN last_agent_result.annotations[1]["annotation"]
    /\ DOMAIN last_agent_result.annotations[2] = {"database_id", "disease_name", "evidence"}
    /\ agent_df[1]["status"] = "removed"
    /\ agent_df[2]["status"] = "added"
    /\ agent_df[2]["hpo_id"] = NaN

---------------------------------------------------------------------------
(* Claims about build_tree (SpecTree) *)

\* build_tree has returned its tree
Built == tree # NoTree

\* the nodes of a forest in pre-order: their values, their labels
RECURSIVE ValuesOf(_)
ValuesOf(nodes) ==
    IF nodes = <<>> THEN <<>>
    ELSE <<Head(nodes).value>> \o ValuesOf(Head(nodes).children) \o ValuesOf(Tail(nodes))

RECURSIVE LabelsOf(_)
LabelsOf(nodes) ==
    IF nodes = <<>> THEN <<>>
    ELSE <<Head(nodes).label>> \o LabelsOf(Head(nodes).children) \o LabelsOf(Tail(nodes))

\* the relation graph of the edge list: the set of its (child, parent) pairs
Relation == {edge_list[i] : i \in 1..Len(edge_list)}
ParentsOf(t) == {e[2] : e \in {x \in Relation : x[1] = t}}
ChildrenOf(t) == {e[1] : e \in {x \in Relation : x[2] = t}}

RECURSIVE Closure(_, _)
Closure(S, n) ==
    IF n = 0 THEN S ELSE Closure(S \cup UNION {ChildrenOf(t) : t \in S}, n - 1)

\* the terms below t, and whether the graph below the root holds a cycle
Descendants(t) == Closure(ChildrenOf(t), Cardinality(Terms))
CycleBelowRoot == \E t \in {Root} \cup Descendants(Root) : t \in Descendants(t)
Acyclic == \A t \in Terms : t \notin Descendants(t)

\* the number of distinct paths from the root to t in an acyclic relation
\* graph: the sum of the counts of t's parents
RECURSIVE PathCount(_)
RECURSIVE PathCountOver(_)
PathCountOver(S) ==
    IF S = {} THEN 0
    ELSE LET x == CHOOSE y \in S : TRUE
         IN  PathCount(x) + PathCountOver(S \ {x})
PathCount(t) == IF t = Root THEN 1 ELSE PathCountOver(ParentsOf(t))

LabelCount(t) ==
    Cardinality({i \in 1..Len(LabelsOf(<<tree>>)) : LabelsOf(<<tree>>)[i] = label_of(t)})

\* C8: no two nodes of a materialized tree have the same value (path_key),
\* whatever the retained edge list.
C8_PathKeysUnique ==
    Built => \A i, j \in 1..Len(ValuesOf(<<tree>>)) :
                i # j => ValuesOf(<<tree>>)[i] # ValuesOf(<<tree>>)[j]

\* C9: for an acyclic ontology the tree holds, for every term, as many nodes
\* labelled with it as there are distinct paths from the root to it.
C9_OneNodePerPath ==
    (Built /\ Acyclic) => \A t \in Terms : LabelCount(t) = PathCount(t)

\* C10: materialization ends; without a cycle below the root it returns a
\* tree, with one it fails with CyclicHierarchyError.
C10_CycleRaisesCyclicHierarchyError ==
    /\ ~CycleBelowRoot => tree_error = "none"
    /\ CycleBelowRoot => ~Built
    /\ (CycleBelowRoot /\ tree_error # "none") => tree_error = "CyclicHierarchyError"

---------------------------------------------------------------------------
(* Claims about the search of the ontology browser (SpecTree) *)

\* the terms whose label contains the lowered query, compared without case
MatchingTerms(query) ==
    CASE query = "abnormality" -> {"HP:0001"}
      [] query = "c" -> {"HP:0003"}
      [] OTHER -> {}
NodeMatches(node, query) == \E t \in MatchingTerms(query) : node.label = label_of(t)

\* the pruned forest: a node is kept when it matches or a descendant does,
\* with the kept ones of its children
RECURSIVE Prune(_, _)
Prune(nodes, query) ==
    IF nodes = <<>> THEN <<>>
    ELSE LET n == Head(nodes)
             kids == Prune(n.children, query)
             rest == Prune(Tail(nodes), query)
         IN  IF NodeMatches(n, query) \/ kids # <<>>
             THEN <<[label |-> n.label, value |-> n.value, children |-> kids]>> \o rest
             ELSE rest

\* C11: with a search text that is not empty the browser shows the pruned
\* tree: exactly the nodes that match or have a matching descendant, so the
\* whole chain from the root to a matching leaf.
C11_SearchKeepsMatchingBranches ==
    (Built /\ q # "") => filtered = Prune(<<tree>>, q)

---------------------------------------------------------------------------
(* Claims about the loader (SpecLoad) *)

Loaded == load_pc \in {"terms", "done"}
DocNodes == doc.graphs[1].nodes
DocEdges == doc.graphs[1].edges

\* what the claims say of a node: its type, its URI, the prefix of its URI
IsClassNode(data) == "type" \in DOMAIN data /\ data.type = "CLASS"
UriMatches(data) ==
    "id" \in DOMAIN data /\ data.id.ns = OboNs /\ Len(data.id.local) = 2
HasPrefixOfInterest(data) == data.id.local[1] = prefix
Qualifies(data) == IsClassNode(data) /\ UriMatches(data) /\ HasPrefixOfInterest(data)
IdentifierOf(data) == data.id.local[1] \o ":" \o data.id.local[2]
RetainedTerms == {terms[i].identifier : i \in 1..Len(terms)}

\* C12: every retained term, and every entry of the identifier lookup, comes
\* from a class-typed node whose URI matches the pattern and whose prefix is
\* the configured one; the other nodes raise nothing.
C12_RetainedTermsHavePrefix ==
    Loaded =>
        /\ \A i \in 1..Len(terms) :
              \E j \in 1..Len(DocNodes) :
                 Qualifies(DocNodes[j]) /\ terms[i].identifier = IdentifierOf(DocNodes[j])
        /\ \A c \in DOMAIN curie_to_term :
              \E j \in 1..Len(DocNodes) :
                 /\ Qualifies(DocNodes[j])
                 /\ DocNodes[j].id.local = c
                 /\ curie_to_term[c] = IdentifierOf(DocNodes[j])
        /\ load_error = "none"

\* a document with a retained term and a node of each excluded kind was loaded
C12_Witness ==
    /\ load_pc = "done"
    /\ terms # <<>>
    /\ \E j \in 1..Len(DocNodes) : UriMatches(DocNodes[j]) /\ ~IsClassNode(DocNodes[j])
    /\ \E j \in 1..Len(DocNodes) : IsClassNode(DocNodes[j]) /\ ~UriMatches(DocNodes[j])
    /\ \E j \in 1..Len(DocNodes) :
          /\ IsClassNode(DocNodes[j]) /\ UriMatches(DocNodes[j])
          /\ ~HasPrefixOfInterest(DocNodes[j])

\* C13: every retained edge has both endpoints among the retained terms (the
\* terms handed to the ontology, not the identifiers seen while scanning) and
\* comes from an is_a edge of the document.
C13_RetainedEdgesJoinRetainedTerms ==
    load_pc = "done" =>
        \A i \in 1..Len(edge_list) :
            /\ edge_list[i][1] \in RetainedTerms
            /\ edge_list[i][2] \in RetainedTerms
            /\ \E j \in 1..Len(DocEdges) :
                  /\ DocEdges[j].pred = "is_a"
                  /\ edge_list[i] = <<DocEdges[j].sub.local[1] \o ":" \o DocEdges[j].sub.local[2],
                                      DocEdges[j].obj.local[1] \o ":" \o DocEdges[j].obj.local[2]>>

\* the document has no graphs array, or an empty one
LacksGraph == "graphs" \notin DOMAIN doc \/ doc.graphs = <<>>

\* C14: a document without the graph container makes the load fail with
\* MalformedSourceError, and no ontology is returned.
C14_MalformedDocumentRejected ==
    LacksGraph =>
        /\ load_pc # "done"
        /\ load_pc = "failed" => load_error = "MalformedSourceError"

---------------------------------------------------------------------------
(* Claims about the store over a session (Spec) *)

\* a step of an approval: the click that starts the Approve loop, a step of
\* the loop, or the manual Approve
ApprovalStep ==
    pc = "applying" \/ pc' = "applying" \/ edited_copy' # edited_copy

\* C15: the rows an approval leaves are the store's current rows: the run of
\* every later action (select, a further approve, a request) starts with
\* them, not with the loaded table.
C15_LaterActionsSeeApprovedRows ==
    [][(pc = "idle" /\ edited_copy' = edited_copy /\ pc' = "idle") => hpoa_df' = hpoa_df]_vars
        /\ [][(pc = "idle" /\ pc' = "applying") => hpoa_df' = hpoa_df]_vars

\* C16: only an approval changes the rows of the store: no step of another
\* action (a request, select, an edit in an editor) changes them.
C16_OnlyApprovalChangesRows ==
    [][hpoa_df' # hpoa_df => ApprovalStep]_vars

\* a change set is pending: the session state holds a result with changes
Pending == last_agent_result # Unset /\ agent_df_of(last_agent_result) # <<>>

\* C17: when the Approve loop has applied a change set, the set is no longer
\* pending and no agent editor offers it for a second approval.
C17_ApprovedSetNotPending ==
    [][(pc = "applying" /\ pc' = "idle" /\ run_error' = "none")
          => (~Pending' /\ editor' # "agent")]_vars

=============================================================================
